---- MODULE Spec2Model ----
(***************************************************************************)
(* A model of fetch_data.py: the frequency selector, the normaliser, the   *)
(* resampler, the composite aggregator and the run of main that chains     *)
(* them.                                                                   *)
(*                                                                         *)
(* Representation.                                                         *)
(*  - A date string 'YYYY-MM-DD' is the tuple <<y, m, d>>; a pandas         *)
(*    Timestamp is the proleptic Gregorian day number (1 = 0001-01-01).    *)
(*    pd.to_datetime and strftime convert between the two.                 *)
(*  - A float price or normalised value is an integer number of            *)
(*    thousandths (100.00 is 100000); round(x, 2) yields a multiple of 10. *)
(*  - A PricePoint dict is [date |-> <<y,m,d>>, vals |-> f], f a function  *)
(*    whose DOMAIN is the set of keys other than 'date'.                   *)
(*  - A weight is an integer number of sixths (100/3 is 200); only ratios  *)
(*    weight/total enter the computation.                                  *)
(***************************************************************************)
EXTENDS Integers, Sequences, FiniteSets

VARIABLES pc, args, table, data, data0, weights, files

vars == <<pc, args, table, data, data0, weights, files>>

\* args.frequency when --frequency is not given.
None == "None"

(***************************************************************************)
(* Calendar arithmetic behind pd.to_datetime, Timestamp subtraction,       *)
(* strftime and the 'W' / 'M' resampling rules.                            *)
(***************************************************************************)
Years == 2014..2026

IsLeap(y) == (y % 4 = 0 /\ y % 100 # 0) \/ y % 400 = 0

DaysInMonth(y, m) ==
    IF m = 2 THEN (IF IsLeap(y) THEN 29 ELSE 28)
    ELSE IF m \in {4, 6, 9, 11} THEN 30 ELSE 31

DaysBeforeYear(y) ==
    LET p == y - 1 IN p * 365 + (p \div 4) - (p \div 100) + (p \div 400)

DaysBeforeMonth(y, m) ==
    <<0, 31, 59, 90, 120, 151, 181, 212, 243, 273, 304, 334>>[m]
    + (IF m > 2 /\ IsLeap(y) THEN 1 ELSE 0)

\* pd.to_datetime('YYYY-MM-DD'): the day number of the date.
to_datetime(s) == DaysBeforeYear(s[1]) + DaysBeforeMonth(s[1], s[2]) + s[3]

\* Timestamp.strftime('%Y-%m-%d'): the date of a day number.
strftime(n) ==
    LET y == CHOOSE yy \in Years :
                 DaysBeforeYear(yy) < n /\ n <= DaysBeforeYear(yy + 1)
        m == CHOOSE mm \in 1..12 :
                 /\ DaysBeforeYear(y) + DaysBeforeMonth(y, mm) < n
                 /\ n <= DaysBeforeYear(y) + DaysBeforeMonth(y, mm) + DaysInMonth(y, mm)
    IN  <<y, m, n - DaysBeforeYear(y) - DaysBeforeMonth(y, m)>>

\* Monday = 0 ... Sunday = 6.
Weekday(n) == (n + 6) % 7

\* Variant: floor instead of truncation.
TruncDiv_Floor(n, d) == n \div d

\* int(x) of the float n / d, d > 0: truncation toward zero.
TruncDiv(n, d) == IF n >= 0 THEN n \div d ELSE -((-n) \div d)

(***************************************************************************)
(* calculate_optimal_frequency                                             *)
(***************************************************************************)
estimated_trading_days(start_date, end_date) ==
    LET days_diff == to_datetime(end_date) - to_datetime(start_date)
    IN  TruncDiv(days_diff * 252, 365)

\* estimated_weeks <= max_samples, estimated_weeks the float etd / 5.
calculate_optimal_frequency(start_date, end_date, max_samples) ==
    LET etd == estimated_trading_days(start_date, end_date)
    IN  IF etd <= max_samples THEN "daily"
        ELSE IF etd <= 5 * max_samples THEN "weekly"
        ELSE "monthly"

(***************************************************************************)
(* Rounding.  round(x, 2) of a float is the two-decimal value nearest to   *)
(* it.  RoundDiv(n, d) is the integer nearest to the rational n / d,       *)
(* d > 0; on an exact decimal tie the float is not exactly the tie and     *)
(* round may go either way, so RoundChoices offers both neighbours and     *)
(* RoundDiv picks the even one.                                            *)
(***************************************************************************)
RoundDiv(n, d) ==
    LET q == n \div d
        r == n % d
    IN  IF 2 * r < d THEN q
        ELSE IF 2 * r > d THEN q + 1
        ELSE IF q % 2 = 0 THEN q ELSE q + 1

RoundChoices(n, d) ==
    IF 2 * (n % d) = d THEN {n \div d, (n \div d) + 1} ELSE {RoundDiv(n, d)}

\* round(v, 2) of a value held in thousandths.
round2(v) == 10 * RoundDiv(v, 10)

Max(S) == CHOOSE x \in S : \A y \in S : y <= x

Min(S) == CHOOSE x \in S : \A y \in S : x <= y

RECURSIVE SortedSeq(_)
SortedSeq(S) == IF S = {} THEN <<>> ELSE <<Min(S)>> \o SortedSeq(S \ {Min(S)})

(***************************************************************************)
(* resample_data                                                           *)
(***************************************************************************)
\* Variant: the label is the left edge of the bin (label='left').
BucketEnd_LeftLabel(n, frequency) ==
    IF frequency = "weekly" THEN n - Weekday(n) - 1
    ELSE LET s == strftime(n)
         IN  DaysBeforeYear(s[1]) + DaysBeforeMonth(s[1], s[2])

\* The right edge (label) of the resampling bin of day n: the Sunday that
\* ends its week for 'W', the last day of its month for 'M'.  Bins are
\* closed on the right, so the edge lies in its own bin.
BucketEnd(n, frequency) ==
    IF frequency = "weekly" THEN n + (6 - Weekday(n))
    ELSE LET s == strftime(n)
         IN  DaysBeforeYear(s[1]) + DaysBeforeMonth(s[1], s[2])
             + DaysInMonth(s[1], s[2])

\* Variant: a bin also takes the rows of the bins before it.
bucket_rows_Cumulative(series, frequency, b) ==
    {i \in 1..Len(series) :
       BucketEnd(to_datetime(series[i].date), frequency) <= b}

\* The rows of the series that fall in the bin whose right edge is b.
bucket_rows(series, frequency, b) ==
    {i \in 1..Len(series) :
       BucketEnd(to_datetime(series[i].date), frequency) = b}

\* Variant: the last row of the bin, whether or not it has a value for c.
last_OfFinalRow(series, frequency, b, c) ==
    LET rows == bucket_rows(series, frequency, b)
    IN  IF rows = {} THEN 0
        ELSE IF c \in DOMAIN series[Max(rows)].vals THEN Max(rows) ELSE 0

\* .last() on column c of the bin b: the position of the last row of the bin
\* whose value for c is not NaN, 0 when there is none.
last(series, frequency, b, c) ==
    LET has == {i \in bucket_rows(series, frequency, b) :
                  c \in DOMAIN series[i].vals}
    IN  IF has = {} THEN 0 ELSE Max(has)

resample_data(series, frequency) ==
    IF frequency = "daily" THEN series
    ELSE IF series = <<>> THEN series
    ELSE IF frequency \notin {"weekly", "monthly"} THEN series
    ELSE
      LET n == Len(series)
          index == [i \in 1..n |-> to_datetime(series[i].date)]
          columns == UNION {DOMAIN series[i].vals : i \in 1..n}
          days == {index[i] : i \in 1..n}
          bins == {BucketEnd(t, frequency) : t \in Min(days)..Max(days)}
          notna(b) == {c \in columns : last(series, frequency, b, c) # 0}
          \* dropna(how='all') and len(entry) > 1
          kept == SortedSeq({b \in bins : notna(b) # {}})
          entry(b) ==
              [date |-> strftime(b),
               vals |-> [c \in notna(b) |->
                           round2(series[last(series, frequency, b, c)].vals[c])]]
      IN  [k \in 1..Len(kept) |-> entry(kept[k])]

(***************************************************************************)
(* fetch_equity_data.  The table yf.download returns is                    *)
(* [index |-> the trading days (day numbers, ascending),                   *)
(*  Close |-> the closing prices]; a column of prices is a function from   *)
(* the positions of index that hold a price to that price (a position      *)
(* outside its DOMAIN is NaN).  For one symbol Close is one such column,   *)
(* otherwise a function from the symbols that have a column to columns.    *)
(***************************************************************************)
Range(seq) == {seq[i] : i \in 1..Len(seq)}

\* normalized[symbol] = series on a DataFrame: a frame with no rows takes the
\* index of the series, any other frame aligns the series to its own index.
setitem(frame, symbol, series) ==
    LET index == IF frame.index = {} THEN DOMAIN series ELSE frame.index
    IN  [index |-> index,
         cols  |-> [s \in DOMAIN frame.cols \cup {symbol} |->
                      IF s = symbol
                      THEN [i \in index \cap DOMAIN series |-> series[i]]
                      ELSE frame.cols[s]]]

\* The frame `normalized` after the loop has handled symbols[1..k].  A
\* normalised value (close / start_price) * 100 is kept as the pair
\* <<close, start_price>> until it is rounded.
RECURSIVE normalized_frame(_, _, _)
normalized_frame(symbols, close_prices, k) ==
    IF k = 0 THEN [index |-> {}, cols |-> <<>>]
    ELSE
      LET prev == normalized_frame(symbols, close_prices, k - 1)
          symbol == symbols[k]
      IN  IF symbol \in DOMAIN close_prices /\ DOMAIN close_prices[symbol] # {}
          THEN LET series == close_prices[symbol]
                   start_price == series[Min(DOMAIN series)]
               IN  setitem(prev, symbol,
                           [i \in DOMAIN series |-> <<series[i], start_price>>])
          ELSE prev

\* round((close / start_price) * 100, 2), in thousandths.
normalized_value(pair) == 10 * RoundDiv(pair[1] * 10000, pair[2])

\* The series before resampling: one entry per row of `normalized`.
normalize(symbols, tbl) ==
    LET close_prices == IF Len(symbols) = 1
                        THEN [s \in {symbols[1]} |-> tbl.Close]
                        ELSE tbl.Close
        normalized == normalized_frame(symbols, close_prices, Len(symbols))
        order == SortedSeq(normalized.index)
        entry(i) ==
            [date |-> strftime(tbl.index[i]),
             vals |-> [s \in {x \in Range(symbols) :
                                 /\ x \in DOMAIN normalized.cols
                                 /\ i \in DOMAIN normalized.cols[x]} |->
                         normalized_value(normalized.cols[s][i])]]
        HasSymbol(e) == DOMAIN e.vals # {}
    IN  SelectSeq([k \in 1..Len(order) |-> entry(order[k])], HasSymbol)

fetch_equity_data(symbols, tbl, frequency) ==
    resample_data(normalize(symbols, tbl), frequency)

(***************************************************************************)
(* calculate_composite                                                     *)
(***************************************************************************)
RECURSIVE SumOver(_, _)
SumOver(f, S) ==
    IF S = {} THEN 0
    ELSE LET x == CHOOSE y \in S : TRUE IN f[x] + SumOver(f, S \ {x})

total_weight(wts) == SumOver(wts, DOMAIN wts)

\* Variant: the weights are renormalised over the symbols the point has.
composite_values_Renormalised(point, wts) ==
    LET present == {s \in DOMAIN wts : s \in DOMAIN point.vals}
        total == SumOver(wts, present)
        num == SumOver([s \in present |-> point.vals[s] * wts[s]], present)
        sgn == IF total < 0 THEN -1 ELSE 1
    IN  IF total = 0 THEN {0}
        ELSE {10 * c : c \in RoundChoices(sgn * num, 10 * sgn * total)}

\* The values round(composite, 2) can take for one point, total_weight # 0:
\* composite is the float sum of point[symbol] * (weight / total_weight)
\* over the weighted symbols the point has.
composite_values(point, wts) ==
    LET total == total_weight(wts)
        present == {s \in DOMAIN wts : s \in DOMAIN point.vals}
        num == SumOver([s \in present |-> point.vals[s] * wts[s]], present)
        sgn == IF total < 0 THEN -1 ELSE 1
    IN  {10 * c : c \in RoundChoices(sgn * num, 10 * sgn * total)}

with_composite(point, c) ==
    [point EXCEPT !.vals = [k \in DOMAIN point.vals \cup {"Composite"} |->
                              IF k = "Composite" THEN c ELSE point.vals[k]]]

\* The series calculate_composite can return (one, but for rounding ties).
RECURSIVE composite_prefixes(_, _, _)
composite_prefixes(series, wts, k) ==
    IF k = 0 THEN {<<>>}
    ELSE {Append(p, with_composite(series[k], c)) :
            p \in composite_prefixes(series, wts, k - 1),
            c \in composite_values(series[k], wts)}

\* Variant: a zero total yields a Composite of 0 instead of returning early.
calculate_composite_ZeroComposite(series, wts) ==
    IF total_weight(wts) = 0
    THEN {[i \in 1..Len(series) |-> with_composite(series[i], 0)]}
    ELSE composite_prefixes(series, wts, Len(series))

calculate_composite(series, wts) ==
    IF total_weight(wts) = 0 THEN {series}
    ELSE composite_prefixes(series, wts, Len(series))

(***************************************************************************)
(* The inputs the checks range over.                                       *)
(***************************************************************************)
MaxLen == 2

MaxPoints == 2

MaxRows == 3

MainRows == 1

MaxWeights == 2

\* max_samples=100, the default and the value main passes.
DefaultMaxSamples == 100

\* Weights are held in twelfths, so that 100 / len(symbols) is exact.
WeightUnit == 3 * 4

Symbols == {"SPY", "QQQ"}

Frequencies == {"daily", "weekly", "monthly"}

\* --symbols: one or more symbols, here without repetition.
SymbolLists ==
    {<<a>> : a \in Symbols}
    \cup {s \in Symbols \X Symbols : s[1] # s[2]}

\* Start and end dates for the frequency selector.
SelectorDates ==
    {s \in {2015, 2024, 2025} \X {1, 2, 5, 12} \X {1, 26, 29, 31} :
       s[3] <= DaysInMonth(s[1], s[2])}

SampleCeilings == {-1, 0, 1, 20, DefaultMaxSamples}

\* Dates of PricePoints: Fri 25 Apr, Mon 28 Apr, Wed 30 Apr (month end),
\* Thu 1 May, Sun 4 May (week end), Mon 5 May 2025.
SeriesDates ==
    <<<<2025, 4, 25>>, <<2025, 4, 28>>, <<2025, 4, 30>>,
      <<2025, 5, 1>>, <<2025, 5, 4>>, <<2025, 5, 5>>>>

\* Trading days of a downloaded table.
TableDates ==
    <<<<2025, 4, 28>>, <<2025, 4, 30>>, <<2025, 5, 1>>, <<2025, 5, 5>>,
      <<2025, 5, 6>>>>

Prices == {30, 70}

\* Functions from a non-empty set of the keys K to the values V.
ValueMaps(K, V) == UNION {[D -> V] : D \in (SUBSET K) \ {{}}}

\* Date-ascending series of at most n points on the dates of `dates`.
SeriesOn(dates, n, V) ==
    UNION {
      {[k \in 1..Len(SortedSeq(I)) |->
          [date |-> dates[SortedSeq(I)[k]], vals |-> f[SortedSeq(I)[k]]]] :
         f \in [I -> ValueMaps(Symbols, V)]} :
      I \in {J \in SUBSET (1..Len(dates)) : Cardinality(J) <= n}}

ResampleInputs == SeriesOn(SeriesDates, MaxLen, {100000, 100004})

CompositeInputs ==
    UNION {SeriesOn(SubSeq(SeriesDates, 1, n), n, {100000, 102000, 100010}) :
             n \in 0..MaxPoints}

WeightMaps ==
    UNION {[D -> {-50 * WeightUnit, 0, 50 * WeightUnit, 25 * WeightUnit}] :
             D \in SUBSET Symbols}

\* Columns of closing prices over the first n trading days.
Columns(n) == UNION {[D -> Prices] : D \in SUBSET (1..n)}

\* What yf.download can return for the symbols, with at most `rows` rows.
Downloads(symbols, rows) ==
    UNION {
      {[index |-> [i \in 1..n |-> to_datetime(TableDates[i])], Close |-> c] :
         c \in IF Len(symbols) = 1 THEN Columns(n)
               ELSE UNION {[D -> Columns(n)] : D \in SUBSET Range(symbols)}} :
      n \in 0..rows}

\* --weights: omitted (empty here, as falsy as None), or one or more numbers.
WeightLists == UNION {[1..n -> {0, 50}] : n \in 0..MaxWeights}

BaseArgs ==
    [symbols |-> <<"SPY">>, start |-> <<2025, 1, 1>>, end |-> <<2025, 1, 31>>,
     frequency |-> None, weights |-> <<>>, max_samples |-> DefaultMaxSamples]

NoTable == [index |-> <<>>, Close |-> <<>>]

(***************************************************************************)
(* main, one action per step.  pc is the place in main:                    *)
(*   select -> fetch -> check -> composite -> write -> done                *)
(***************************************************************************)
\* if args.frequency is None: args.frequency = calculate_optimal_frequency(..)
AutoSelect ==
    /\ pc = "select"
    /\ args.frequency = None
    /\ args' = [args EXCEPT !.frequency =
                 calculate_optimal_frequency(args.start, args.end, args.max_samples)]
    /\ pc' = "fetch"
    /\ UNCHANGED <<table, data, data0, weights, files>>

UseSpecified ==
    /\ pc = "select"
    /\ args.frequency # None
    /\ pc' = "fetch"
    /\ UNCHANGED <<args, table, data, data0, weights, files>>

\* data = fetch_equity_data(...); `table` is what yf.download returns.
Fetch ==
    /\ pc = "fetch"
    /\ data' = fetch_equity_data(args.symbols, table, args.frequency)
    /\ pc' = "check"
    /\ UNCHANGED <<args, table, data0, weights, files>>

\* Variant: an empty series falls through to the output.
NoData_FallsThrough ==
    /\ pc = "check"
    /\ data = <<>>
    /\ pc' = "write"
    /\ UNCHANGED <<args, table, data, data0, weights, files>>

\* if not data: print(...); return
NoData ==
    /\ pc = "check"
    /\ data = <<>>
    /\ pc' = "done"
    /\ UNCHANGED <<args, table, data, data0, weights, files>>

equal_weights(symbols) ==
    [s \in Range(symbols) |-> (100 * WeightUnit) \div Len(symbols)]

\* dict(zip(symbols, given)): a later pair replaces an earlier one.
zip_weights(symbols, given) ==
    LET n == IF Len(symbols) < Len(given) THEN Len(symbols) ELSE Len(given)
    IN  [s \in {symbols[i] : i \in 1..n} |->
           WeightUnit * given[Max({i \in 1..n : symbols[i] = s})]]

\* Variant: a count mismatch is not detected, the pairs zip gives are used.
main_weights_ZipAnyway(symbols, given) ==
    IF given # <<>> THEN zip_weights(symbols, given)
    ELSE equal_weights(symbols)

\* The weights main builds from args.weights.
main_weights(symbols, given) ==
    IF given # <<>>
    THEN IF Len(given) # Len(symbols) THEN equal_weights(symbols)
         ELSE zip_weights(symbols, given)
    ELSE equal_weights(symbols)

BuildWeights ==
    /\ pc = "check"
    /\ data # <<>>
    /\ weights' = main_weights(args.symbols, args.weights)
    /\ pc' = "composite"
    /\ UNCHANGED <<args, table, data, data0, files>>

\* data = calculate_composite(data, weights); data0 keeps the argument.
Composite ==
    /\ pc = "composite"
    /\ data0' = data
    /\ data' \in calculate_composite(data, weights)
    /\ pc' = "write"
    /\ UNCHANGED <<args, table, weights, files>>

\* json.dump({...}, f)
Write ==
    /\ pc = "write"
    /\ files' = Append(files, [symbols |-> args.symbols, weights |-> weights,
                               start_date |-> args.start, end_date |-> args.end,
                               data |-> data])
    /\ pc' = "done"
    /\ UNCHANGED <<args, table, data, data0, weights>>

\* resample_data(data, frequency), then once more on its own result; data0
\* keeps the argument of the call.
Resample ==
    /\ pc \in {"resample", "resampled"}
    /\ data' = resample_data(data, args.frequency)
    /\ data0' = data
    /\ pc' = IF pc = "resample" THEN "resampled" ELSE "resampled_twice"
    /\ UNCHANGED <<args, table, weights, files>>

Init ==
    /\ pc = "select"
    /\ args \in [symbols : SymbolLists,
                 start : {<<2025, 1, 1>>, <<2015, 1, 1>>},
                 end : {<<2025, 1, 31>>},
                 frequency : Frequencies \cup {None},
                 weights : WeightLists,
                 max_samples : {DefaultMaxSamples}]
    /\ table \in Downloads(args.symbols, MainRows)
    /\ data = <<>>
    /\ data0 = <<>>
    /\ weights = <<>>
    /\ files = <<>>

Next ==
    \/ AutoSelect
    \/ UseSpecified
    \/ Fetch
    \/ NoData
    \/ BuildWeights
    \/ Composite
    \/ Write

Spec == Init /\ [][Next]_vars

\* calculate_optimal_frequency on its own.
InitFrequency ==
    /\ pc = "select"
    /\ args \in [symbols : {BaseArgs.symbols},
                 start : SelectorDates,
                 end : SelectorDates,
                 frequency : {None},
                 weights : {<<>>},
                 max_samples : SampleCeilings]
    /\ table = NoTable
    /\ data = <<>>
    /\ data0 = <<>>
    /\ weights = <<>>
    /\ files = <<>>

NextFrequency == AutoSelect

SpecFrequency == InitFrequency /\ [][NextFrequency]_vars

\* fetch_equity_data on its own.
InitFetch ==
    /\ pc = "fetch"
    /\ args \in [symbols : SymbolLists,
                 start : {BaseArgs.start},
                 end : {BaseArgs.end},
                 frequency : Frequencies,
                 weights : {<<>>},
                 max_samples : {DefaultMaxSamples}]
    /\ table \in Downloads(args.symbols, MaxRows)
    /\ data = <<>>
    /\ data0 = <<>>
    /\ weights = <<>>
    /\ files = <<>>

NextFetch == Fetch

SpecFetch == InitFetch /\ [][NextFetch]_vars

\* resample_data on its own.
InitResample ==
    /\ pc = "resample"
    /\ args \in [symbols : {BaseArgs.symbols},
                 start : {BaseArgs.start},
                 end : {BaseArgs.end},
                 frequency : Frequencies,
                 weights : {<<>>},
                 max_samples : {DefaultMaxSamples}]
    /\ table = NoTable
    /\ data \in ResampleInputs
    /\ data0 = <<>>
    /\ weights = <<>>
    /\ files = <<>>

NextResample == Resample

SpecResample == InitResample /\ [][NextResample]_vars

\* calculate_composite on its own.
InitComposite ==
    /\ pc = "composite"
    /\ args = BaseArgs
    /\ table = NoTable
    /\ data \in CompositeInputs
    /\ data0 = <<>>
    /\ weights \in WeightMaps
    /\ files = <<>>

NextComposite == Composite

SpecComposite == InitComposite /\ [][NextComposite]_vars

(***************************************************************************)
(* Properties.                                                             *)
(***************************************************************************)
Abs(x) == IF x < 0 THEN -x ELSE x

SelectorDays == to_datetime(args.end) - to_datetime(args.start)

\* C1: the frequency selected automatically keeps the estimated number of
\* samples strictly under max_samples: estimated_trading_days for 'daily',
\* estimated_trading_days / 5 for 'weekly', estimated_trading_days / 21 for
\* 'monthly'.
C1_SamplesUnderCeiling ==
    pc = "fetch" =>
      LET etd == estimated_trading_days(args.start, args.end)
      IN  /\ args.frequency = "daily" => etd < args.max_samples
          /\ args.frequency = "weekly" => etd < 5 * args.max_samples
          /\ args.frequency = "monthly" => etd < 21 * args.max_samples

\* The selection the spec describes from a given estimate of trading days.
SelectionFrom(etd, max_samples) ==
    IF etd <= max_samples THEN "daily"
    ELSE IF etd <= 5 * max_samples THEN "weekly"
    ELSE "monthly"

\* C2 as stated: the estimate is floor(days * 252 / 365), for every pair of
\* dates and every integer max_samples.
C2_FloorEstimate ==
    pc = "fetch" =>
      args.frequency = SelectionFrom((SelectorDays * 252) \div 365, args.max_samples)

\* C2 amended: the estimate is days * 252 / 365 truncated toward zero (the
\* integer q of the sign of days with 365|q| <= 252|days| < 365(|q| + 1)); the
\* result is 'daily' if q <= max_samples, else 'weekly' if q / 5 <=
\* max_samples, else 'monthly'; with max_samples = 100 every range with
\* end_date < start_date yields 'daily'.
C2_TruncatedEstimate ==
    pc = "fetch" =>
      /\ \E q \in -Abs(SelectorDays)..Abs(SelectorDays) :
           /\ q * SelectorDays >= 0
           /\ 365 * Abs(q) <= 252 * Abs(SelectorDays)
           /\ 252 * Abs(SelectorDays) < 365 * (Abs(q) + 1)
           /\ args.frequency = SelectionFrom(q, args.max_samples)
      /\ (args.max_samples = DefaultMaxSamples /\ SelectorDays < 0)
            => args.frequency = "daily"

C2_Witness ==
    /\ pc = "fetch"
    /\ SelectorDays < -1
    /\ args.max_samples = DefaultMaxSamples
    /\ args.frequency = "daily"

\* C3 as stated: monthly resampling yields at most as many rows as weekly
\* resampling, which yields at most as many rows as the series has.
C3_MonthlyWeeklyOriginal ==
    pc = "resampled" =>
      /\ args.frequency = "monthly"
            => Len(data) <= Len(resample_data(data0, "weekly"))
      /\ args.frequency = "weekly" => Len(data) <= Len(data0)

\* C3 amended: weekly resampling and monthly resampling each yield at most as
\* many rows as the series has (each non-empty bucket yields one row).
C3_AtMostOriginal ==
    (pc = "resampled" /\ args.frequency \in {"weekly", "monthly"})
      => Len(data) <= Len(data0)

C3_Witness ==
    /\ pc = "resampled"
    /\ args.frequency = "monthly"
    /\ Len(data) < Len(data0)

\* The rows of the resampled series `data0` that lie in the bucket of the
\* output row dated d.
RowsOfBucket(d) ==
    {i \in 1..Len(data0) :
       BucketEnd(to_datetime(data0[i].date), args.frequency) = to_datetime(d)}

\* C4 as stated: a bucket's output row is a snapshot of the bucket's last
\* row: a symbol the last row lacks is absent from the output row.
C4_LastRowSnapshot ==
    (pc = "resampled" /\ args.frequency \in {"weekly", "monthly"}) =>
      \A k \in 1..Len(data) :
        LET final == data0[Max(RowsOfBucket(data[k].date))]
        IN  DOMAIN data[k].vals = DOMAIN final.vals

\* C4 amended: a bucket's output row holds, for each symbol, the value of
\* the chronologically last row of the bucket that has a value for that
\* symbol, rounded to 2 decimals; a symbol is absent from it only if no row
\* of the bucket has a value for it.
C4_PerSymbolLast ==
    (pc = "resampled" /\ args.frequency \in {"weekly", "monthly"}) =>
      \A k \in 1..Len(data) : \A x \in Symbols :
        LET has == {i \in RowsOfBucket(data[k].date) : x \in DOMAIN data0[i].vals}
        IN  /\ x \in DOMAIN data[k].vals <=> has # {}
            /\ has # {} =>
                 \E i \in has :
                   /\ \A j \in has : j <= i
                   /\ data[k].vals[x] = round2(data0[i].vals[x])

C4_Witness ==
    /\ pc = "resampled"
    /\ args.frequency = "weekly"
    /\ \E k \in 1..Len(data) : \E x \in DOMAIN data[k].vals :
         x \notin DOMAIN data0[Max(RowsOfBucket(data[k].date))].vals

\* Sum of weights[s] * point[s] over the weighted symbols the point has.
WeightedSum(point) ==
    LET present == DOMAIN weights \cap DOMAIN point.vals
    IN  SumOver([s \in present |-> point.vals[s] * weights[s]], present)

WeightTotal == SumOver(weights, DOMAIN weights)

\* C5: when the weights do not sum to 0, every point gets Composite = the
\* two-decimal value nearest to (sum over the weighted symbols present of
\* point[s] * weights[s]) / total, total the sum of ALL weights; an absent
\* weighted symbol contributes nothing and nothing else changes; {SPY: 100,
\* QQQ: 102} with weights 50 / 50 gives 101.00.
C5_CompositeOverTotal ==
    (pc = "write" /\ WeightTotal # 0) =>
      /\ Len(data) = Len(data0)
      /\ \A i \in 1..Len(data) :
           /\ data[i].date = data0[i].date
           /\ DOMAIN data[i].vals = DOMAIN data0[i].vals \cup {"Composite"}
           /\ \A s \in DOMAIN data0[i].vals : data[i].vals[s] = data0[i].vals[s]
           /\ data[i].vals["Composite"] % 10 = 0
           /\ Abs(data[i].vals["Composite"] * WeightTotal - WeightedSum(data0[i]))
                <= 5 * Abs(WeightTotal)
      /\ \A i \in 1..Len(data) :
           (/\ data0[i].vals = [SPY |-> 100000, QQQ |-> 102000]
            /\ weights = [SPY |-> 50 * WeightUnit, QQQ |-> 50 * WeightUnit])
             => data[i].vals["Composite"] = 101000

C5_Witness ==
    /\ pc = "write"
    /\ weights = [SPY |-> 50 * WeightUnit, QQQ |-> 50 * WeightUnit]
    /\ Len(data) = 2
    /\ data0[1].vals = [SPY |-> 100000, QQQ |-> 102000]
    /\ data[1].vals["Composite"] = 101000
    /\ DOMAIN data0[2].vals = {"QQQ"}
    /\ data[2].vals["Composite"] = 51000

\* C6: when the weights sum to 0, calculate_composite returns its input
\* unchanged: no point gains a Composite field, no field is modified.
C6_ZeroTotalUnchanged ==
    (pc = "write" /\ WeightTotal = 0) => data = data0

C6_Witness ==
    /\ pc = "write"
    /\ WeightTotal = 0
    /\ \E s \in DOMAIN weights : weights[s] # 0
    /\ data # <<>>
    /\ data = data0

\* C7: a run whose series is empty after fetch_equity_data ends without
\* writing the output file; the file is written at most once, exactly once
\* by the end of a run whose series is not empty, and in no other run.
C7_EmptyNeverWritten ==
    /\ Len(files) <= 1
    /\ files # <<>> => (pc = "done" /\ data # <<>>)
    /\ pc = "done" => (data # <<>> <=> Len(files) = 1)
    /\ (pc \in {"composite", "write"}) => data # <<>>

C7_Witness ==
    /\ pc = "done"
    /\ Len(table.index) > 0
    /\ data = <<>>
    /\ files = <<>>

\* C8: once main has built the weights, they are 100 / len(symbols) for
\* every requested symbol when --weights is omitted or its count differs
\* from the number of symbols, and the given weights paired with the symbols
\* in order when the counts match; the run then goes on to write the output
\* with these weights.
C8_WeightsFallback ==
    (pc \in {"composite", "write", "done"} /\ data # <<>>) =>
      /\ DOMAIN weights = Range(args.symbols)
      /\ (args.weights = <<>> \/ Len(args.weights) # Len(args.symbols))
            => \A s \in Range(args.symbols) :
                 weights[s] * Len(args.symbols) = 100 * WeightUnit
      /\ (args.weights # <<>> /\ Len(args.weights) = Len(args.symbols))
            => \A i \in 1..Len(args.symbols) :
                 weights[args.symbols[i]] = WeightUnit * args.weights[i]
      /\ pc = "done" => (Len(files) = 1 /\ files[1].weights = weights)

C8_Witness ==
    /\ pc = "done"
    /\ Len(args.symbols) = 2
    /\ Len(args.weights) = 1
    /\ Len(files) = 1
    /\ \A s \in Range(args.symbols) : files[1].weights[s] = 50 * WeightUnit

\* The close prices of a symbol in the downloaded table.
CloseOf(s) ==
    IF Len(args.symbols) = 1 THEN table.Close
    ELSE IF s \in DOMAIN table.Close THEN table.Close[s] ELSE <<>>

\* C9: after normalisation (daily frequency, so no resampling), for every
\* symbol with a non-missing close the first value of that symbol in the
\* output is exactly 100.00, and every value is close / p0 * 100 rounded to
\* 2 decimals, p0 the symbol's first non-missing close.
C9_FirstValueIs100 ==
    (pc = "check" /\ args.frequency = "daily") =>
      \A s \in Range(args.symbols) :
        LET has == {k \in 1..Len(data) : s \in DOMAIN data[k].vals}
            close == CloseOf(s)
        IN  /\ has # {} => data[Min(has)].vals[s] = 100000
            /\ \A k \in has :
                 \E i \in DOMAIN close :
                   /\ strftime(table.index[i]) = data[k].date
                   /\ data[k].vals[s] =
                        10 * RoundDiv(close[i] * 10000, close[Min(DOMAIN close)])

\* C10: resample_data is idempotent for every frequency: resampling its
\* result again with the same frequency returns that result.
C10_Idempotent ==
    pc = "resampled_twice" => data = data0

C10_Witness ==
    /\ pc = "resampled_twice"
    /\ args.frequency = "weekly"
    /\ Len(data) = 2
    /\ data = data0

====
